---- MODULE Spec2Model ----
(***************************************************************************)
(* Output contract, validator and repair loop of the agentic smell         *)
(* prioritizer (prioritizer/pipelines/agentic).                            *)
(*                                                                         *)
(* A text is a sequence of characters, each character a one-character      *)
(* string (Backtick is a named atom).  A State dictionary is a function    *)
(* from key names to values; a key whose value is None is modelled as an   *)
(* absent key, which the code cannot tell apart because every read goes    *)
(* through state.get().                                                    *)
(***************************************************************************)
EXTENDS Integers, Sequences, FiniteSets, TLC

VARIABLES
    state,          \* the State dictionary handed from node to node
    pc,             \* position of the run (controller state or graph node)
    table,          \* what the generator meant to say in its last reply
    response,       \* the raw text the last generation step produced
    llm_raised,     \* whether the last call of the generator raised
    request,        \* the last repair request sent to the generator
    generations,    \* number of generator replies received in this run
    files,          \* the files written under out_dir, by name
    parsed,         \* what the calls of the table parser have returned
    _SUMMARY_CACHE, \* the summary cache of the process, by cache key
    summaries       \* the calls of analyze_code_segments_via_ai so far

vars == <<state, pc, table, response, llm_raised, request, generations, files, parsed, _SUMMARY_CACHE, summaries>>

----------------------------------------------------------------------------
(* Bounds of the model *)

MaxSmells == 3      \* evidence records per run
MaxRows == 2        \* data rows in a generated table
MaxBudget == 2      \* largest max_repair_attempts a run is started with
MaxChunks == 4      \* pieces a text handed to the parser is made of

----------------------------------------------------------------------------
(* Characters and the str methods the code uses *)

Whitespace == {" ", "\n", "\t"}

Digits == {"0", "1", "2", "3", "4", "5", "6", "7", "8", "9"}

LowerCase == <<"a", "b", "c", "d", "e", "f", "g", "h", "i", "j", "k", "l", "m", "n", "o", "p", "q", "r", "s", "t", "u", "v", "w", "x", "y", "z">>

UpperCase == <<"A", "B", "C", "D", "E", "F", "G", "H", "I", "J", "K", "L", "M", "N", "O", "P", "Q", "R", "S", "T", "U", "V", "W", "X", "Y", "Z">>

Range(s) == {s[i] : i \in DOMAIN s}

\* the regular expression class [0-9A-Za-z]
Alnum == Digits \cup Range(LowerCase) \cup Range(UpperCase)

\* characters for which str.isdigit() is true: the decimal digits and
\* digit-like characters such as SUPERSCRIPT TWO
IsdigitChars == Digits \cup {"²"}

\* the regular expression class [-|:\s]
SeparatorChars == {"-", "|", ":"} \cup Whitespace

RECURSIVE first_not_in(_, _, _)
first_not_in(s, i, cls) ==
    IF i > Len(s) THEN Len(s) + 1
    ELSE IF s[i] \notin cls THEN i
    ELSE first_not_in(s, i + 1, cls)

RECURSIVE last_not_in(_, _, _)
last_not_in(s, i, cls) ==
    IF i < 1 THEN 0
    ELSE IF s[i] \notin cls THEN i
    ELSE last_not_in(s, i - 1, cls)

\* s with the leading and the trailing run of characters of cls removed
trim(s, cls) ==
    SubSeq(s, first_not_in(s, 1, cls), last_not_in(s, Len(s), cls))

\* str.strip()
strip(s) == trim(s, Whitespace)

\* str.startswith / str.endswith
startswith(s, t) == Len(t) <= Len(s) /\ SubSeq(s, 1, Len(t)) = t

endswith(s, t) == Len(t) <= Len(s) /\ SubSeq(s, Len(s) - Len(t) + 1, Len(s)) = t

\* str.isdigit()
isdigit(s) == Len(s) > 0 /\ \A i \in DOMAIN s : s[i] \in IsdigitChars

\* int(s) raises ValueError unless every character is a decimal digit
int_raises(s) == \E i \in DOMAIN s : s[i] \notin Digits

DigitValue(c) == CHOOSE d \in 0..9 : <<"0", "1", "2", "3", "4", "5", "6", "7", "8", "9">>[d + 1] = c

RECURSIVE int(_)
int(s) ==
    IF s = <<>> THEN 0
    ELSE 10 * int(SubSeq(s, 1, Len(s) - 1)) + DigitValue(s[Len(s)])

\* str(i) of a non-negative integer
RECURSIVE str(_)
str(i) ==
    IF i < 10 THEN <<(<<"0", "1", "2", "3", "4", "5", "6", "7", "8", "9">>)[i + 1]>>
    ELSE str(i \div 10) \o str(i % 10)

upper_char(c) ==
    IF \E k \in DOMAIN LowerCase : LowerCase[k] = c
    THEN UpperCase[CHOOSE k \in DOMAIN LowerCase : LowerCase[k] = c]
    ELSE c

\* str.upper()
upper(s) == [i \in DOMAIN s |-> upper_char(s[i])]

\* str.split(sep) for a one-character separator
RECURSIVE split(_, _)
split(s, sep) ==
    LET k == first_not_in(s, 1, UNION {Range(s)} \ {sep})
    IN  IF k > Len(s) THEN <<s>>
        ELSE <<SubSeq(s, 1, k - 1)>> \o split(SubSeq(s, k + 1, Len(s)), sep)

\* str.splitlines(); "\n" is the only line boundary of the alphabet, and a
\* final line boundary opens no further line
splitlines(s) ==
    LET parts == split(s, "\n")
    IN  IF s = <<>> THEN <<>>
        ELSE IF parts[Len(parts)] = <<>> THEN SubSeq(parts, 1, Len(parts) - 1)
        ELSE parts

\* "|".join(parts)
RECURSIVE join(_)
join(parts) ==
    IF parts = <<>> THEN <<>>
    ELSE IF Len(parts) = 1 THEN parts[1]
    ELSE parts[1] \o <<"|">> \o join(Tail(parts))

\* sorted(s) for a list of integers
RECURSIVE insert_sorted(_, _)
insert_sorted(s, x) ==
    IF s = <<>> THEN <<x>>
    ELSE IF x <= s[1] THEN <<x>> \o s
    ELSE <<s[1]>> \o insert_sorted(Tail(s), x)

RECURSIVE sorted(_)
sorted(s) == IF s = <<>> THEN <<>> ELSE insert_sorted(sorted(Tail(s)), s[1])

\* list(range(1, n + 1))
range1(n) == [i \in 1..n |-> i]

\* s.count(x)
count(s, x) == Cardinality({i \in DOMAIN s : s[i] = x})

----------------------------------------------------------------------------
(* reviewing_output.py: normalisation and table parsing *)

EXPECTED_HEADER == <<"R", "a", "n", "k", "|", "I", "d", "|", "N", "a", "m", "e", " ", "o", "f", " ", "S", "m", "e", "l", "l", "|", "N", "a", "m", "e", "|", "F", "i", "l", "e", "|", "S", "e", "v", "e", "r", "i", "t", "y", "|", "R", "e", "a", "s", "o", "n", " ", "f", "o", "r", " ", "P", "r", "i", "o", "r", "i", "t", "i", "z", "a", "t", "i", "o", "n">>

DoubleQuote == "\""

Apostrophe == "'"

\* the GRAVE ACCENT character (U+0060), which a TLA+ string cannot hold
Backtick == "GRAVE"

Fence == <<Backtick, Backtick, Backtick>>


FenceCsv == <<Backtick, Backtick, Backtick, "c", "s", "v">>

FenceText == <<Backtick, Backtick, Backtick, "t", "e", "x", "t">>

\* the tokens of the for loop of normalize_llm_output, in its order
NormalizeTokens == <<FenceCsv, FenceText, Fence, <<DoubleQuote>>, <<Apostrophe>> >>

\* one iteration of the for loop
strip_token(text, token) ==
    LET a == IF startswith(text, token)
             THEN strip(SubSeq(text, Len(token) + 1, Len(text)))
             ELSE text
    IN  IF endswith(a, token)
        THEN strip(SubSeq(a, 1, Len(a) - Len(token)))
        ELSE a

RECURSIVE strip_tokens(_, _)
strip_tokens(text, k) ==
    IF k > Len(NormalizeTokens) THEN text
    ELSE strip_tokens(strip_token(text, NormalizeTokens[k]), k + 1)

normalize_llm_output(text) ==
    IF text = <<>> THEN text
    ELSE LET stripped == strip_tokens(strip(text), 1)
             \* re.sub of the leading, then of the trailing, run of [^0-9A-Za-z]
             head == SubSeq(stripped, first_not_in(stripped, 1, Range(stripped) \ Alnum), Len(stripped))
         IN  SubSeq(head, 1, last_not_in(head, Len(head), Range(head) \ Alnum))

is_fence_line(ln) == ln \in {Fence, FenceText, FenceCsv}

is_separator_line(ln) == Len(ln) > 0 /\ \A i \in DOMAIN ln : ln[i] \in SeparatorChars

split_row(ln) == LET parts == split(ln, "|") IN [k \in DOMAIN parts |-> strip(parts[k])]

\* _parse_table leaving out the lines that hold no delimiter
_parse_table_dropping_prose(text) ==
    LET norm == normalize_llm_output(text)
        raw == splitlines(norm)
        stripped == [k \in DOMAIN raw |-> strip(raw[k])]
        delimited(ln) == "|" \in Range(ln)
        lines == SelectSeq(stripped, delimited)
        notsep(ln) == ~ is_separator_line(ln)
        kept == SelectSeq(lines, notsep)
    IN  << lines, [k \in DOMAIN kept |-> split_row(kept[k])] >>

\* returns <<lines, rows>>
_parse_table(text) ==
    LET norm == normalize_llm_output(text)
        raw == splitlines(norm)
        stripped == [k \in DOMAIN raw |-> strip(raw[k])]
        nonempty(ln) == ln # <<>>
        lines0 == SelectSeq(stripped, nonempty)
        notfence(ln) == ~ is_fence_line(ln)
        lines == SelectSeq(lines0, notfence)
        notsep(ln) == ~ is_separator_line(ln)
        kept == SelectSeq(lines, notsep)
    IN  IF lines0 = <<>> THEN << <<>>, <<>> >>
        ELSE << lines, [k \in DOMAIN kept |-> split_row(kept[k])] >>

----------------------------------------------------------------------------
(* The State dictionary *)

\* state.get(key, default); also state.get(key) or default, a key holding
\* None being an absent key
get(st, key, default) == IF key \in DOMAIN st THEN st[key] ELSE default

\* {**d, key: value} and d[key] = value
set_item(d, key, value) == (key :> value) @@ d

\* {**st, key: None}
set_none(st, key) == [k \in DOMAIN st \ {key} |-> st[k]]

\* [str(s.get("index")) for s in smells]
expected_ids_of(st) ==
    LET smells == get(st, "smells", <<>>)
    IN  [k \in DOMAIN smells |-> str(smells[k].index)]

----------------------------------------------------------------------------
(* reviewing_output.py: review_output_node *)

SEVERITY_ORDER == {<<"H", "I", "G", "H">>, <<"M", "E", "D", "I", "U", "M">>, <<"L", "O", "W">>}

LOW == <<"L", "O", "W">>

\* the body of the for loop over data_rows, for row i; acc carries errors,
\* seen_ranks, seen_ids, severities_in_rank_order and whether int() raised
review_row(r, i, acc) ==
    IF Len(r) # 7
    THEN [acc EXCEPT !.errors = set_item(@, "Invalid column count", [row |-> i])]
    ELSE LET rank_s == r[1]
             id_s == r[2]
             severity == r[6]
             reason == r[7]
             severity_u == upper(strip(severity))
             e1 == IF ~ isdigit(rank_s)
                   THEN set_item(acc.errors, "Invalid rank value", [row |-> i, value |-> rank_s])
                   ELSE acc.errors
             e2 == IF id_s = <<>>
                   THEN set_item(e1, "Non-numerical id", [row |-> i])
                   ELSE e1
             e3 == IF severity_u \notin SEVERITY_ORDER
                   THEN set_item(e2, "Invalid severity value", [row |-> i, value |-> severity])
                   ELSE e2
             e4 == IF reason = <<>> \/ Len(reason) < 5
                   THEN set_item(e3, "Lacking description", [row |-> i])
                   ELSE e3
         IN  IF isdigit(rank_s) /\ int_raises(rank_s)
             THEN [acc EXCEPT !.raised = TRUE]
             ELSE [errors |-> e4,
                   seen_ranks |-> IF isdigit(rank_s)
                                  THEN Append(acc.seen_ranks, int(rank_s))
                                  ELSE acc.seen_ranks,
                   seen_ids |-> IF id_s = <<>> THEN acc.seen_ids ELSE Append(acc.seen_ids, id_s),
                   severities_in_rank_order |->
                       IF severity_u \in SEVERITY_ORDER
                       THEN Append(acc.severities_in_rank_order, severity_u)
                       ELSE acc.severities_in_rank_order,
                   raised |-> FALSE]

RECURSIVE review_rows(_, _, _)
review_rows(data_rows, i, acc) ==
    IF i > Len(data_rows) \/ acc.raised THEN acc
    ELSE review_rows(data_rows, i + 1, review_row(data_rows[i], i, acc))

\* review_ranks checking only that every rank lies in 1..n
review_ranks_in_range(errors, seen_ranks, n) ==
    IF \E k \in DOMAIN seen_ranks : seen_ranks[k] \notin 1..n
    THEN set_item(errors, "Invalid rank ordering", [n |-> n, detected |-> sorted(seen_ranks)])
    ELSE errors

\* the checks on seen_ranks (lines 111-114)
review_ranks(errors, seen_ranks, n) ==
    IF seen_ranks # <<>> /\ sorted(seen_ranks) # range1(n)
    THEN set_item(errors, "Invalid rank ordering", [n |-> n, detected |-> sorted(seen_ranks)])
    ELSE errors

\* review_ids with its guard inverted, so that collected ids are never checked
review_ids_guard_inverted(errors, seen_ids, expected_ids) ==
    IF seen_ids # <<>> THEN errors
    ELSE IF expected_ids # <<>>
    THEN set_item(errors, "Missing smell identifiers", Range(expected_ids))
    ELSE errors

\* the checks on seen_ids (lines 116-133); a sorted list of distinct ids is
\* modelled as the set of its elements
review_ids(errors, seen_ids, expected_ids) ==
    LET expected_id_set == Range(expected_ids)
        seen_id_set == Range(seen_ids)
        missing == expected_id_set \ seen_id_set
        extra == seen_id_set \ expected_id_set
        dupes == {x \in seen_id_set : count(seen_ids, x) > 1}
        e1 == IF missing # {} THEN set_item(errors, "Missing smell identifiers", missing) ELSE errors
        e2 == IF extra # {} THEN set_item(e1, "Unexpected smell identifiers", extra) ELSE e1
        e3 == IF dupes # {} THEN set_item(e2, "Duplicate smell identifiers", dupes) ELSE e2
    IN  IF seen_ids = <<>> THEN errors ELSE e3

\* the severity loop (lines 135-144): the first MEDIUM or HIGH entry of the
\* list that comes after a LOW entry is reported, then the loop breaks
review_severities(errors, sevs) ==
    LET bad == {idx \in DOMAIN sevs : sevs[idx] # LOW /\ \E j \in 1..(idx - 1) : sevs[j] = LOW}
        first == CHOOSE idx \in bad : \A j \in bad : idx <= j
    IN  IF bad = {} THEN errors
        ELSE set_item(errors, "Severity ordering violation", [sev |-> sevs[first], rank |-> first])

\* review_returns keeping the violations the State arrived with
review_returns_merging(st, errors, valid) ==
    LET merged == errors @@ get(st, "validation_errors", <<>>)
    IN  [raised |-> FALSE,
         state |-> set_item(set_item(st, "validation_errors", merged),
                            "is_valid", DOMAIN merged = {})]

\* {**state, "validation_errors": errors, "is_valid": ...}
review_returns(st, errors, valid) ==
    [raised |-> FALSE,
     state |-> set_item(set_item(st, "validation_errors", errors), "is_valid", valid)]

\* review_header without the comparison of the header
review_header_rows_only(rows, n) ==
    IF Len(rows) - 1 # n
    THEN [k \in {"Incorrect number of rows"} |-> [expected |-> n, found |-> Len(rows) - 1]]
    ELSE <<>>

\* the header and the row-count checks (lines 66-73)
review_header(rows, n) ==
    (IF strip(join(rows[1])) # EXPECTED_HEADER
     THEN [k \in {"Invalid header format"} |-> EXPECTED_HEADER]
     ELSE <<>>)
    @@ (IF Len(rows) - 1 # n
        THEN [k \in {"Incorrect number of rows"} |-> [expected |-> n, found |-> Len(rows) - 1]]
        ELSE <<>>)

\* review_is_valid with is_valid computed as len(errors) >= 0
review_is_valid_always(st, errors) == review_returns(st, errors, TRUE)

\* is_valid = len(errors) == 0, and the return (lines 146-147)
review_is_valid(st, errors) == review_returns(st, errors, DOMAIN errors = {})

\* lines 111-147, on what the for loop has collected
review_collected(st, expected_ids, acc) ==
    IF acc.raised THEN [raised |-> TRUE]
    ELSE review_is_valid(st,
            review_severities(
                review_ids(review_ranks(acc.errors, acc.seen_ranks, Len(expected_ids)),
                           acc.seen_ids, expected_ids),
                acc.severities_in_rank_order))

\* lines 66-147, on the parsed rows
review_table(st, rows, expected_ids) ==
    review_collected(st, expected_ids,
        review_rows(Tail(rows), 1,
                    [errors |-> review_header(rows, Len(expected_ids)),
                     seen_ranks |-> <<>>, seen_ids |-> <<>>,
                     severities_in_rank_order |-> <<>>, raised |-> FALSE]))

\* lines 61-147
review_parsed(st, rows) ==
    IF rows = <<>>
    THEN review_returns(st, [k \in {"Empty rows"} |-> "Could not parse any rows from output."], FALSE)
    ELSE review_table(st, rows, expected_ids_of(st))

\* lines 57-147
review_text(st, text) ==
    IF text = <<>>
    THEN review_returns(st, [k \in {"Empty output"} |-> "Empty output_text."], FALSE)
    ELSE review_parsed(st, _parse_table(text)[2])

\* returns [raised |-> TRUE] when the call ends in an exception, and the
\* returned State otherwise
review_output_node(st) == review_text(st, strip(get(st, "output_text", <<>>)))

----------------------------------------------------------------------------
(* The generator: the replies a language model can give.  A reply is        *)
(* described by a table record (what the model meant to say) and rendered  *)
(* to text the way the fixtures of tests/mocking_objects/mock_states.py    *)
(* are written.                                                            *)

HIGH == <<"H", "I", "G", "H">>

MEDIUM == <<"M", "E", "D", "I", "U", "M">>

FeatureEnvy == <<"F", "e", "a", "t", "u", "r", "e", " ", "E", "n", "v", "y">>

FilePy == <<"f", ".", "p", "y">>

Reason == <<"R", "e", "a", "s", "o", "n">>

Prose == <<"H", "e", "r", "e", " ", "i", "s", " ", "t", "h", "e", " ", "p", "r", "i", "o", "r", "i", "t", "i", "z", "a", "t", "i", "o", "n", " ", "y", "o", "u", " ", "r", "e", "q", "u", "e", "s", "t", "e", "d", ":">>

WrongHeader == <<"r", "a", "n", "k", "|", "i", "d", "|", "s", "m", "e", "l", "l", "|", "n", "a", "m", "e", "|", "f", "i", "l", "e", "|", "s", "e", "v", "e", "r", "i", "t", "y", "|", "r", "e", "a", "s", "o", "n">>

\* the expected header with a space on either side of every delimiter
SpacedHeader == <<"R", "a", "n", "k", " ", "|", " ", "I", "d", " ", "|", " ", "N", "a", "m", "e", " ", "o", "f", " ", "S", "m", "e", "l", "l", " ", "|", " ", "N", "a", "m", "e", " ", "|", " ", "F", "i", "l", "e", " ", "|", " ", "S", "e", "v", "e", "r", "i", "t", "y", " ", "|", " ", "R", "e", "a", "s", "o", "n", " ", "f", "o", "r", " ", "P", "r", "i", "o", "r", "i", "t", "i", "z", "a", "t", "i", "o", "n">>

\* a reason of five characters that ends in a full stop
Slow == <<"S", "l", "o", "w", ".">>

\* the indexes read_and_store_relevant_smells gives the smells of a run
EvidencePool == <<14, 20, 7, 21>>

EvidenceLists == {[k \in 1..n |-> [index |-> EvidencePool[k]]] : n \in 0..MaxSmells}

row(rank, id, severity, reason, fields) ==
    [rank |-> rank, id |-> id, severity |-> severity, reason |-> reason, fields |-> fields]

\* rows that break no rule by themselves
CoreRows ==
    {row(str(r), str(i), sev, Reason, 7) :
        r \in 1..3, i \in {14, 20}, sev \in {HIGH, MEDIUM, LOW}}

\* rows with one deviation each
OddRows ==
    {row(r, str(14), HIGH, Reason, 7) : r \in {<<"0">>, <<"x">>, <<"²">>, <<"0", "2">>}}
    \cup {row(str(2), i, HIGH, Reason, 7) : i \in {str(99), <<>>}}
    \cup {row(str(2), str(20), sev, Reason, 7) : sev \in {<<"l", "o", "w">>, <<"U", "R", "G", "E", "N", "T">>}}
    \cup {row(str(2), str(20), LOW, <<"b", "a", "d">>, 7)}
    \cup {row(str(2), str(20), HIGH, Reason, f) : f \in {6, 8}}

Rows == CoreRows \cup OddRows

\* rows with a short reason that ends in punctuation, and a row to follow them
TerseRows ==
    {row(str(r), str(i), sev, Slow, 7) : r \in 1..3, i \in {14, 20}, sev \in {HIGH, LOW}}
    \cup {row(str(2), str(20), HIGH, Reason, 7), row(str(1), str(14), MEDIUM, Reason, 7)}

\* rows for the replies that vary the header and the wrapping
PlainRows == {row(str(r), str(i), sev, Reason, 7) : r \in 1..2, i \in {14, 20}, sev \in {HIGH, LOW}}

RECURSIVE SeqsUpTo(_, _)
SeqsUpTo(S, n) ==
    IF n = 0 THEN {<<>>}
    ELSE LET shorter == SeqsUpTo(S, n - 1)
         IN  shorter \cup {Append(q, x) : q \in {p \in shorter : Len(p) = n - 1}, x \in S}

Headers == {"exact", "omitted", "wrong", "spaced"}

Wraps == {"plain", "quoted", "fenced", "prose", "padded"}

tbl(kind, header, wrap, rows) == [kind |-> kind, header |-> header, wrap |-> wrap, rows |-> rows]

\* replies that hold no table at all
BareReplies == {tbl(k, "omitted", "plain", <<>>) : k \in {"empty", "blank", "fence", "dashes"}}

render_row(r) ==
    LET fields == <<r.rank, r.id, FeatureEnvy, <<"a">>, FilePy, r.severity, r.reason>>
    IN  IF r.fields = 6 THEN join(SubSeq(fields, 1, 6))
        ELSE IF r.fields = 8 THEN join(Append(fields, <<"x">>))
        ELSE join(fields)

RECURSIVE join_lines(_)
join_lines(lines) ==
    IF lines = <<>> THEN <<>>
    ELSE IF Len(lines) = 1 THEN lines[1]
    ELSE lines[1] \o <<"\n">> \o join_lines(Tail(lines))

render(t) ==
    LET head == IF t.header = "exact" THEN <<EXPECTED_HEADER>>
                ELSE IF t.header = "wrong" THEN <<WrongHeader>>
                ELSE IF t.header = "spaced" THEN <<SpacedHeader>>
                ELSE <<>>
        body == join_lines(head \o [k \in DOMAIN t.rows |-> render_row(t.rows[k])])
    IN  CASE t.kind = "empty" -> <<>>
          [] t.kind = "blank" -> <<" ", "\n">>
          [] t.kind = "fence" -> Fence \o <<"\n">> \o Fence
          [] t.kind = "dashes" -> <<"-", "-", "-", "|", "-", "-", "-">>
          [] t.wrap = "quoted" -> <<DoubleQuote>> \o body \o <<DoubleQuote>>
          [] t.wrap = "fenced" -> FenceCsv \o <<"\n">> \o body \o <<"\n">> \o Fence
          [] t.wrap = "prose" -> Prose \o <<"\n">> \o body
          [] t.wrap = "padded" -> <<"\n", " ">> \o body \o <<" ", "\n">>
          [] OTHER -> body

\* the replies the validator is exercised on
ReviewTables ==
    {tbl("table", "exact", "plain", rs) : rs \in SeqsUpTo(Rows, MaxRows)}
    \cup {tbl("table", h, w, rs) : h \in Headers, w \in Wraps, rs \in SeqsUpTo(PlainRows, MaxRows)}
    \cup {tbl("table", "exact", w, rs) : w \in {"plain", "quoted"}, rs \in SeqsUpTo(TerseRows, MaxRows)}
    \cup BareReplies

----------------------------------------------------------------------------
(* The validator applied to one reply *)

\* the State of make_mock_state (tests/mocking_objects/mock_states.py)
make_mock_state(output_text, smells, max_repairs) ==
    LET st == [smells |-> smells, validation_errors |-> <<>>,
               repair_attempts |-> 0, max_repair_attempts |-> max_repairs]
    IN  IF output_text = <<>> THEN st ELSE set_item(st, "output_text", output_text)

InitReview ==
    /\ \E smells \in EvidenceLists, t \in ReviewTables :
          /\ table = t
          /\ response = render(t)
          /\ state = make_mock_state(render(t), smells, 2)
    /\ llm_raised = FALSE
    /\ pc = "Validating"
    /\ request = <<>>
    /\ generations = 1
    /\ files = <<>>
    /\ parsed = <<>>
    /\ _SUMMARY_CACHE = <<>>
    /\ summaries = <<>>

\* one call of review_output_node
Review ==
    /\ pc = "Validating"
    /\ LET result == review_output_node(state)
       IN  IF result.raised
           THEN /\ pc' = "ValidatorRaised"
                /\ state' = state
           ELSE /\ pc' = "Reviewed"
                /\ state' = result.state
    /\ UNCHANGED <<table, response, llm_raised, request, generations, files, parsed, _SUMMARY_CACHE, summaries>>

NextReview == Review

SpecReview == InitReview /\ [][NextReview]_vars

----------------------------------------------------------------------------
(* repair_node.py: repair_output_node *)

\* EXPECTED_HEADER of repair_node.py
repair_EXPECTED_HEADER == <<"R", "a", "n", "k", "|", "I", "d", "|", "N", "a", "m", "e", " ", "o", "f", " ", "S", "m", "e", "l", "l", "|", "N", "a", "m", "e", "|", "F", "i", "l", "e", "|", "S", "e", "v", "e", "r", "i", "t", "y", "|", "R", "e", "a", "s", "o", "n", " ", "f", "o", "r", " ", "P", "r", "i", "o", "r", "i", "t", "i", "z", "a", "t", "i", "o", "n">>

\* user_msg without the validation errors
user_msg_without_errors(expected_ids, errors, prior) ==
    [header |-> repair_EXPECTED_HEADER,
     expected_ids |-> expected_ids,
     errors |-> <<>>,
     prior |-> prior]

\* the four values the f-string of user_msg interpolates, by section
user_msg(expected_ids, errors, prior) ==
    [header |-> repair_EXPECTED_HEADER,
     expected_ids |-> expected_ids,
     errors |-> errors,
     prior |-> prior]

\* an outcome of llm.invoke: a reply, or an exception of the transport
llm_reply(content) == [raised |-> FALSE, content |-> content]

llm_failure == [raised |-> TRUE]

\* repair_output_node counting two attempts per repair
repair_output_node_adds_two(st, llm_result) ==
    LET attempts == get(st, "repair_attempts", 0)
        msg == user_msg(expected_ids_of(st), get(st, "validation_errors", <<>>),
                        get(st, "output_text", <<>>))
    IN  IF attempts >= get(st, "max_repair_attempts", 2)
        THEN [invoked |-> FALSE, raised |-> FALSE, request |-> <<>>, state |-> st]
        ELSE IF llm_result.raised
        THEN [invoked |-> TRUE, raised |-> TRUE, request |-> msg, state |-> st]
        ELSE [invoked |-> TRUE, raised |-> FALSE, request |-> msg,
              state |-> set_item(set_item(st, "output_text", strip(llm_result.content)),
                                 "repair_attempts", attempts + 2)]

\* repair_output_node catching the exception of llm.invoke and going on with
\* an empty answer
repair_output_node_catches(st, llm_result) ==
    LET attempts == get(st, "repair_attempts", 0)
        msg == user_msg(expected_ids_of(st), get(st, "validation_errors", <<>>),
                        get(st, "output_text", <<>>))
        fixed == IF llm_result.raised THEN <<>> ELSE strip(llm_result.content)
    IN  IF attempts >= get(st, "max_repair_attempts", 2)
        THEN [invoked |-> FALSE, raised |-> FALSE, request |-> <<>>, state |-> st]
        ELSE [invoked |-> TRUE, raised |-> FALSE, request |-> msg,
              state |-> set_item(set_item(st, "output_text", fixed),
                                 "repair_attempts", attempts + 1)]

\* repair_output_node returning a State without the last evidence record
repair_output_node_drops_evidence(st, llm_result) ==
    LET attempts == get(st, "repair_attempts", 0)
        msg == user_msg(expected_ids_of(st), get(st, "validation_errors", <<>>),
                        get(st, "output_text", <<>>))
        kept == SubSeq(st.smells, 1, Len(st.smells) - 1)
    IN  IF attempts >= get(st, "max_repair_attempts", 2)
        THEN [invoked |-> FALSE, raised |-> FALSE, request |-> <<>>, state |-> st]
        ELSE IF llm_result.raised
        THEN [invoked |-> TRUE, raised |-> TRUE, request |-> msg, state |-> st]
        ELSE [invoked |-> TRUE, raised |-> FALSE, request |-> msg,
              state |-> set_item(set_item(set_item(st, "smells", kept),
                                          "output_text", strip(llm_result.content)),
                                 "repair_attempts", attempts + 1)]

\* repair_output_node returning only when attempts > max_attempts
repair_output_node_guard_strict(st, llm_result) ==
    LET attempts == get(st, "repair_attempts", 0)
        msg == user_msg(expected_ids_of(st), get(st, "validation_errors", <<>>),
                        get(st, "output_text", <<>>))
    IN  IF attempts > get(st, "max_repair_attempts", 2)
        THEN [invoked |-> FALSE, raised |-> FALSE, request |-> <<>>, state |-> st]
        ELSE IF llm_result.raised
        THEN [invoked |-> TRUE, raised |-> TRUE, request |-> msg, state |-> st]
        ELSE [invoked |-> TRUE, raised |-> FALSE, request |-> msg,
              state |-> set_item(set_item(st, "output_text", strip(llm_result.content)),
                                 "repair_attempts", attempts + 1)]

\* repair_output_node returning a State with the validation result reset
repair_output_node_resets_validation(st, llm_result) ==
    LET attempts == get(st, "repair_attempts", 0)
        msg == user_msg(expected_ids_of(st), get(st, "validation_errors", <<>>),
                        get(st, "output_text", <<>>))
        reset == set_item(set_item(st, "validation_errors", <<>>), "is_valid", TRUE)
    IN  IF attempts >= get(st, "max_repair_attempts", 2)
        THEN [invoked |-> FALSE, raised |-> FALSE, request |-> <<>>, state |-> st]
        ELSE IF llm_result.raised
        THEN [invoked |-> TRUE, raised |-> TRUE, request |-> msg, state |-> st]
        ELSE [invoked |-> TRUE, raised |-> FALSE, request |-> msg,
              state |-> set_item(set_item(reset, "output_text", strip(llm_result.content)),
                                 "repair_attempts", attempts + 1)]

\* returns whether the generator was invoked, the request it was sent,
\* whether the call ended in an exception, and the State the caller holds
\* afterwards (the returned State, or the argument when nothing is returned)
repair_output_node(st, llm_result) ==
    LET attempts == get(st, "repair_attempts", 0)
        max_attempts == get(st, "max_repair_attempts", 2)
        errors == get(st, "validation_errors", <<>>)
        prior == get(st, "output_text", <<>>)
        msg == user_msg(expected_ids_of(st), errors, prior)
        fixed == strip(llm_result.content)
    IN  IF attempts >= max_attempts
        THEN [invoked |-> FALSE, raised |-> FALSE, request |-> <<>>, state |-> st]
        ELSE IF llm_result.raised
        THEN [invoked |-> TRUE, raised |-> TRUE, request |-> msg, state |-> st]
        ELSE [invoked |-> TRUE, raised |-> FALSE, request |-> msg,
              state |-> set_item(set_item(st, "output_text", fixed),
                                 "repair_attempts", attempts + 1)]

----------------------------------------------------------------------------
(* ai_agent.py: the nodes of the agent pipeline *)

NoSmellsText == <<"N", "o", " ", "s", "m", "e", "l", "l", "s", " ", "t", "o", " ", "p", "r", "i", "o", "r", "i", "t", "i", "z", "e", ".">>

load_smells(st, smells) == set_item(st, "smells", smells)

\* add_further_context leaves the list and every index as they are and adds
\* the context texts, which the core never reads
create_more_context(st) ==
    LET smells == get(st, "smells", <<>>)
        more(sm) ==
            (IF get(st, "use_git", FALSE) THEN [git_analysis |-> <<"git", sm.index>>] ELSE <<>>)
            @@ (IF get(st, "use_pylint", FALSE) THEN [pylint_report |-> <<"pylint", sm.index>>] ELSE <<>>)
            @@ [code_segment |-> <<"code", sm.index>>]
            @@ sm
    IN  set_item(st, "smells", [k \in DOMAIN smells |-> more(smells[k])])

\* summarised[k] tells whether the generator gave a summary for smell k
analyze_code_segments_with_agent(st, summarised) ==
    LET smells == get(st, "smells", <<>>)
        use_analysis == ~ get(st, "use_code", FALSE)
        more(k) ==
            IF use_analysis /\ summarised[k]
            THEN [ai_code_segment_summary |-> <<"summary", smells[k].index>>] @@ smells[k]
            ELSE smells[k]
    IN  set_item(st, "smells", [k \in DOMAIN smells |-> more(k)])

\* returns the same record as repair_output_node, with the files written
prioritize_smells_node(st, llm_result) ==
    LET smells == get(st, "smells", <<>>)
        text == strip(llm_result.content)
        written == [name \in {"prompt.txt"} |-> expected_ids_of(st)]
    IN  IF smells = <<>>
        THEN [invoked |-> FALSE, raised |-> FALSE, written |-> <<>>,
              state |-> set_item(st, "output_text", NoSmellsText)]
        ELSE IF llm_result.raised
        THEN [invoked |-> TRUE, raised |-> TRUE, written |-> written, state |-> st]
        ELSE [invoked |-> TRUE, raised |-> FALSE, written |-> written,
              state |-> IF text # <<>> THEN set_item(st, "output_text", text)
                        ELSE set_none(st, "output_text")]

\* the file written by write_prioritization_report
write_prioritization_report(st) ==
    [name \in {"agent_output.csv"} |-> get(st, "output_text", <<>>)]

\* the edges run_agent_pipeline adds to the graph
edges ==
    [START |-> "load_smells",
     load_smells |-> "create_more_context",
     create_more_context |-> "analyze_code_segments_with_agent",
     analyze_code_segments_with_agent |-> "prioritize_smells_node",
     prioritize_smells_node |-> "write_prioritization_report",
     write_prioritization_report |-> "END"]

\* the State run_agent_pipeline invokes the graph with
invoke_state(use_git, use_pylint, use_code) ==
    [use_git |-> use_git, use_pylint |-> use_pylint, use_code |-> use_code,
     prompt_tokens |-> 0, completion_tokens |-> 0, total_tokens |-> 0]

----------------------------------------------------------------------------
(* The replies of the generator in the runs of the repair loop *)

good_row(k) == row(str(k), str(EvidencePool[k]), HIGH, Reason, 7)

good_rows(n) == [k \in 1..n |-> good_row(k)]

Replies ==
    {tbl("table", "exact", "plain", good_rows(n)) : n \in 0..MaxSmells}
    \cup {tbl("table", "exact", "padded", good_rows(n)) : n \in 1..MaxSmells}
    \cup {tbl("table", "wrong", "plain", good_rows(n)) : n \in 1..MaxSmells}
    \cup {tbl("table", "exact", "plain", <<row(str(1), str(14), LOW, Reason, 7), row(str(2), str(20), HIGH, Reason, 7)>>),
          tbl("table", "exact", "plain", <<row(<<"²">>, str(14), HIGH, Reason, 7)>>),
          tbl("empty", "omitted", "plain", <<>>),
          tbl("blank", "omitted", "plain", <<>>)}

LlmResults == {llm_reply(render(t)) : t \in Replies} \cup {llm_failure}

\* the table a reply was rendered from
table_of(llm_result) ==
    IF llm_result.raised THEN <<>>
    ELSE CHOOSE t \in Replies : render(t) = llm_result.content

----------------------------------------------------------------------------
(* The repair loop of section 4.3 around the two nodes *)

\* the routing after a validation
route(st) ==
    IF DOMAIN st.validation_errors = {} THEN "Accepted"
    ELSE IF st.repair_attempts < st.max_repair_attempts THEN "NeedsRepair"
    ELSE "ExhaustedWithErrors"

Init ==
    /\ \E smells \in EvidenceLists, m \in 0..MaxBudget :
          state = [smells |-> smells, repair_attempts |-> 0, max_repair_attempts |-> m]
    /\ pc = "Initial"
    /\ table = <<>>
    /\ response = <<>>
    /\ llm_raised = FALSE
    /\ request = <<>>
    /\ generations = 0
    /\ files = <<>>
    /\ parsed = <<>>
    /\ _SUMMARY_CACHE = <<>>
    /\ summaries = <<>>

\* Initial --(generate)--> Validating
Generate ==
    /\ pc = "Initial"
    /\ \E llm_result \in LlmResults :
          LET result == prioritize_smells_node(state, llm_result)
          IN  /\ result.invoked \/ llm_result = llm_reply(<<>>)
              /\ state' = result.state
              /\ files' = result.written @@ files
              /\ pc' = IF result.raised THEN "TransportFailure" ELSE "Validating"
              /\ llm_raised' = (result.invoked /\ llm_result.raised)
              /\ IF ~ result.invoked
                 THEN /\ response' = NoSmellsText
                      /\ UNCHANGED <<table, generations>>
                 ELSE IF llm_result.raised
                 THEN UNCHANGED <<response, table, generations>>
                 ELSE /\ response' = llm_result.content
                      /\ table' = table_of(llm_result)
                      /\ generations' = generations + 1
    /\ UNCHANGED <<request, parsed, _SUMMARY_CACHE, summaries>>

\* Validating --> Accepted, NeedsRepair or ExhaustedWithErrors
Validate ==
    /\ pc = "Validating"
    /\ LET result == review_output_node(state)
       IN  IF result.raised
           THEN /\ pc' = "ValidatorRaised"
                /\ state' = state
           ELSE /\ pc' = route(result.state)
                /\ state' = result.state
    /\ UNCHANGED <<table, response, llm_raised, request, generations, files, parsed, _SUMMARY_CACHE, summaries>>

\* NeedsRepair --(build repair prompt, invoke generator)--> Repairing
\*             --(increment attemptsUsed)--> Validating
Repair ==
    /\ pc = "NeedsRepair"
    /\ \E llm_result \in LlmResults :
          LET result == repair_output_node(state, llm_result)
          IN  /\ result.invoked \/ llm_result = llm_reply(<<>>)
              /\ state' = result.state
              /\ pc' = IF result.raised THEN "TransportFailure" ELSE "Validating"
              /\ request' = IF result.invoked THEN result.request ELSE request
              /\ llm_raised' = (result.invoked /\ llm_result.raised)
              /\ IF result.invoked /\ ~ llm_result.raised
                 THEN /\ response' = llm_result.content
                      /\ table' = table_of(llm_result)
                      /\ generations' = generations + 1
                 ELSE UNCHANGED <<response, table, generations>>
    /\ UNCHANGED <<files, parsed, _SUMMARY_CACHE, summaries>>

Next == Generate \/ Validate \/ Repair

Spec == Init /\ [][Next]_vars

----------------------------------------------------------------------------
(* The graph compiled by run_agent_pipeline *)

InitPipeline ==
    /\ \E use_git \in BOOLEAN, use_pylint \in BOOLEAN, use_code \in BOOLEAN :
          state = invoke_state(use_git, use_pylint, use_code)
    /\ pc = edges["START"]
    /\ table = <<>>
    /\ response = <<>>
    /\ llm_raised = FALSE
    /\ request = <<>>
    /\ generations = 0
    /\ files = <<>>
    /\ parsed = <<>>
    /\ _SUMMARY_CACHE = <<>>
    /\ summaries = <<>>

LoadSmells ==
    /\ pc = "load_smells"
    /\ \E smells \in EvidenceLists : state' = load_smells(state, smells)
    /\ pc' = edges[pc]
    /\ UNCHANGED <<table, response, llm_raised, request, generations, files, parsed, _SUMMARY_CACHE, summaries>>

CreateMoreContext ==
    /\ pc = "create_more_context"
    /\ state' = create_more_context(state)
    /\ pc' = edges[pc]
    /\ UNCHANGED <<table, response, llm_raised, request, generations, files, parsed, _SUMMARY_CACHE, summaries>>

AnalyzeCodeSegments ==
    /\ pc = "analyze_code_segments_with_agent"
    /\ \E summarised \in [DOMAIN get(state, "smells", <<>>) -> BOOLEAN] :
          state' = analyze_code_segments_with_agent(state, summarised)
    /\ pc' = edges[pc]
    /\ UNCHANGED <<table, response, llm_raised, request, generations, files, parsed, _SUMMARY_CACHE, summaries>>

PrioritizeSmells ==
    /\ pc = "prioritize_smells_node"
    /\ \E llm_result \in LlmResults :
          LET result == prioritize_smells_node(state, llm_result)
          IN  /\ result.invoked \/ llm_result = llm_reply(<<>>)
              /\ state' = result.state
              /\ files' = result.written @@ files
              /\ pc' = IF result.raised THEN "TransportFailure" ELSE edges[pc]
              /\ llm_raised' = (result.invoked /\ llm_result.raised)
              /\ IF ~ result.invoked
                 THEN /\ response' = NoSmellsText
                      /\ UNCHANGED <<table, generations>>
                 ELSE IF llm_result.raised
                 THEN UNCHANGED <<response, table, generations>>
                 ELSE /\ response' = llm_result.content
                      /\ table' = table_of(llm_result)
                      /\ generations' = generations + 1
    /\ UNCHANGED <<request, parsed, _SUMMARY_CACHE, summaries>>

WritePrioritizationReport ==
    /\ pc = "write_prioritization_report"
    /\ files' = write_prioritization_report(state) @@ files
    /\ pc' = edges[pc]
    /\ UNCHANGED <<state, table, response, llm_raised, request, generations, parsed, _SUMMARY_CACHE, summaries>>

NextPipeline ==
    \/ LoadSmells
    \/ CreateMoreContext
    \/ AnalyzeCodeSegments
    \/ PrioritizeSmells
    \/ WritePrioritizationReport

SpecPipeline == InitPipeline /\ [][NextPipeline]_vars

----------------------------------------------------------------------------
(* Properties *)

Terminal == {"Accepted", "ExhaustedWithErrors"}

accepted == pc = "Reviewed" /\ state.is_valid

\* no node of the loop runs from here: the run has ended
stopped == pc \notin {"Initial", "Validating", "NeedsRepair"}

\* the rank of a row of the generator's table, as a number
rank_of(r) == int(r.rank)

\* C1: in a run that starts with repair_attempts = 0, repair_attempts never
\* exceeds max_repair_attempts, and every repair step in which the generator
\* answered adds exactly 1 to repair_attempts; the same holds of a call of
\* repair_output_node from any state of the run, whoever routes to it.
C1_RepairBudget ==
    /\ [](state.repair_attempts <= state.max_repair_attempts)
    /\ [][(pc = "NeedsRepair" /\ generations' = generations + 1)
            => state'.repair_attempts = state.repair_attempts + 1]_vars
    /\ [](\A llm_result \in LlmResults :
             LET result == repair_output_node(state, llm_result)
             IN  /\ result.state.repair_attempts <= result.state.max_repair_attempts
                 /\ (result.invoked /\ ~ result.raised)
                        => result.state.repair_attempts = state.repair_attempts + 1
                 /\ ~ result.invoked => result.state = state)

\* a run that has used a budget of two repairs
C1_Witness == pc = "Validating" /\ state.repair_attempts = 2 /\ generations = 3

\* C2: whatever the generator answers, the run ends in Accepted or in
\* ExhaustedWithErrors, after at most max_repair_attempts + 1 generations.
C2_BoundedTermination ==
    /\ generations <= state.max_repair_attempts + 1
    /\ (stopped /\ ~ llm_raised) => pc \in Terminal

\* C3: Accepted goes with is_valid and no violation, ExhaustedWithErrors with
\* is_valid false, a used-up budget and some violation; in both the
\* output_text is the last generated text (as the nodes store it) and the
\* violations are those of a review of that text.
C3_TerminalOutcomes ==
    /\ pc = "Accepted"
          => state.is_valid /\ DOMAIN state.validation_errors = {}
    /\ pc = "ExhaustedWithErrors"
          => /\ ~ state.is_valid
             /\ DOMAIN state.validation_errors # {}
             /\ state.repair_attempts = state.max_repair_attempts
    /\ pc \in Terminal
          => /\ get(state, "output_text", <<>>) = strip(response)
             /\ LET fresh == review_output_node(set_item(state, "output_text", strip(response)))
                IN  /\ ~ fresh.raised
                    /\ fresh.state.validation_errors = state.validation_errors

\* a run that ends without a valid table after two repairs
C3_Witness == pc = "ExhaustedWithErrors" /\ state.repair_attempts = 2

\* C4: when the generator raises inside repair_output_node, the State is
\* the one before the call and the run ends with the failure.
C4_TransportFailure ==
    [][(pc = "NeedsRepair" /\ llm_raised')
         => (state' = state /\ pc' = "TransportFailure")]_vars

\* the generator has failed during a repair
C4_Witness == pc = "TransportFailure" /\ llm_raised /\ generations >= 1

\* C5: a repair request holds the expected header, the ids of all evidence
\* records, the violations of the last validation and the text to repair.
C5_RepairRequest ==
    [][(pc = "NeedsRepair" /\ (generations' = generations + 1 \/ llm_raised'))
         => /\ request'.header = EXPECTED_HEADER
            /\ request'.expected_ids = [k \in DOMAIN state.smells |-> str(state.smells[k].index)]
            /\ request'.errors = state.validation_errors
            /\ request'.errors = review_output_node(state).state.validation_errors
            /\ DOMAIN request'.errors # {}
            /\ request'.prior = get(state, "output_text", <<>>)]_vars

\* a second repair request, for a text that was itself a repair
C5_Witness ==
    /\ pc = "Validating" /\ state.repair_attempts = 2
    /\ request # <<>> /\ request.prior # <<>> /\ Len(request.expected_ids) = 2

\* C6: write_prioritization_report runs only on a State that carries the
\* result of a validation.
C6_ReportAfterValidation ==
    "agent_output.csv" \in DOMAIN files
        => {"is_valid", "validation_errors"} \subseteq DOMAIN state

\* C7: in an accepted output every evidence id is the id of exactly one data
\* row, and no data row has another id.
C7_Completeness ==
    accepted
        => LET ids == [k \in DOMAIN table.rows |-> table.rows[k].id]
               expected == {str(state.smells[k].index) : k \in DOMAIN state.smells}
           IN  /\ Range(ids) = expected
               /\ \A id \in expected : count(ids, id) = 1
               /\ Len(ids) = Len(state.smells)

\* an accepted table of two rows
C7_Witness == accepted /\ Len(table.rows) = 2 /\ Len(state.smells) = 2

\* C8: in an accepted output of N data rows every rank field is a positive
\* integer and every rank of 1..N is the rank of exactly one row.
C8_RankContiguity ==
    accepted
        => /\ \A k \in DOMAIN table.rows :
                 ~ int_raises(table.rows[k].rank) /\ rank_of(table.rows[k]) >= 1
           /\ \A r \in 1..Len(table.rows) :
                 Cardinality({k \in DOMAIN table.rows : rank_of(table.rows[k]) = r}) = 1

\* an accepted table whose rows are not listed by ascending rank
C8_Witness ==
    accepted /\ Len(table.rows) = 2 /\ rank_of(table.rows[1]) = 2

\* C9: in an accepted output no MEDIUM or HIGH row has a larger rank than a
\* LOW row, in whatever order the rows are listed.
C9_SeverityMonotonicity ==
    accepted
        => \A i, j \in DOMAIN table.rows :
              (upper(table.rows[i].severity) = LOW /\ upper(table.rows[j].severity) \in {MEDIUM, HIGH})
                 => ~ (rank_of(table.rows[j]) > rank_of(table.rows[i]))

\* C10: review_output_node never raises and always returns validation_errors
\* and is_valid, with Empty output for an empty text and Empty rows for a
\* text that holds no row.
C10_ValidatorTotal ==
    /\ pc # "ValidatorRaised"
    /\ pc = "Reviewed"
          => /\ {"is_valid", "validation_errors"} \subseteq DOMAIN state
             /\ table.kind \in {"empty", "blank"}
                   => DOMAIN state.validation_errors = {"Empty output"}
             /\ table.kind \in {"fence", "dashes"}
                   => DOMAIN state.validation_errors = {"Empty rows"}

----------------------------------------------------------------------------
(* The rule set of the validator, stated on the rows of the table *)

\* the reply is a table whose first line is a header candidate, so that the
\* data rows the parser finds are the rows of the table
parsed_as_written ==
    table.kind = "table" /\ table.header # "omitted" /\ table.wrap # "prose"

\* the rows of the table that have seven fields
seven_field_rows == SelectSeq(table.rows, LAMBDA r : r.fields = 7)

\* the ids of the evidence records of the run
evidence_ids == {str(state.smells[k].index) : k \in DOMAIN state.smells}

\* the evidence ids that are the id of no row, whatever its column count
missing_ids == evidence_ids \ {table.rows[k].id : k \in DOMAIN table.rows}

\* the violation kinds of the rules the rows of the table break; a rule on
\* a field is applied to the rows of seven fields only
broken_rules ==
    {"Invalid header format" : x \in {1} \cap (IF table.header # "exact" THEN {1} ELSE {})}
    \cup {"Incorrect number of rows" : x \in {1} \cap (IF Len(table.rows) # Len(state.smells) THEN {1} ELSE {})}
    \cup {"Invalid column count" : k \in {k \in DOMAIN table.rows : table.rows[k].fields # 7}}
    \cup {"Missing smell identifiers" : id \in missing_ids}
    \cup {"Invalid severity value" :
            k \in {k \in DOMAIN seven_field_rows : upper(seven_field_rows[k].severity) \notin SEVERITY_ORDER}}
    \cup {"Lacking description" :
            k \in {k \in DOMAIN seven_field_rows : Len(seven_field_rows[k].reason) < 5}}
    \cup {"Non-numerical id" :
            k \in {k \in DOMAIN seven_field_rows : seven_field_rows[k].id = <<>>}}

\* C11: every rule the rows of a parsed table break has its entry in
\* validation_errors after one review, whatever other rules are broken.
C11_NoShortCircuit ==
    (pc = "Reviewed" /\ parsed_as_written)
        => broken_rules \subseteq DOMAIN state.validation_errors

\* C12: in every State review_output_node returns, is_valid is true exactly
\* when validation_errors is empty.
C12_ValidIffNoErrors ==
    pc = "Reviewed" => (state.is_valid <=> DOMAIN state.validation_errors = {})

\* a State returned on the early return for a text without rows
C12_Witness ==
    /\ pc = "Reviewed" /\ table.kind = "fence"
    /\ ~ state.is_valid /\ "Empty rows" \in DOMAIN state.validation_errors

----------------------------------------------------------------------------
(* Well-formed tables *)

\* one row of seven fields per evidence record, each with a severity of the
\* enumeration and a reason of five characters or more
rows_shape ==
    /\ table.kind = "table"
    /\ Len(state.smells) >= 1
    /\ Len(table.rows) = Len(state.smells)
    /\ \A k \in DOMAIN table.rows :
          /\ table.rows[k].fields = 7
          /\ table.rows[k].severity \in SEVERITY_ORDER
          /\ Len(table.rows[k].reason) >= 5

\* such rows given as they are or inside one pair of double quotes
table_shape == rows_shape /\ table.wrap \in {"plain", "quoted"}

\* such rows under the exact header
exact_table == table.header = "exact" /\ table_shape

\* every evidence id is the id of exactly one row
ids_complete ==
    \A id \in evidence_ids :
        Cardinality({k \in DOMAIN table.rows : table.rows[k].id = id}) = 1

\* the rank fields are the numerals of 1..N, each in one row
ranks_contiguous ==
    \A n \in 1..Len(table.rows) :
        Cardinality({k \in DOMAIN table.rows : table.rows[k].rank = str(n)}) = 1

\* no MEDIUM or HIGH row after a LOW row, neither in the order the rows are
\* listed nor in the order of their ranks
severities_ordered ==
    \A i, j \in DOMAIN table.rows :
        (table.rows[i].severity = LOW /\ table.rows[j].severity # LOW)
            => ~ (i < j) /\ ~ (rank_of(table.rows[i]) < rank_of(table.rows[j]))

well_formed == exact_table /\ ids_complete /\ ranks_contiguous /\ severities_ordered

\* C13: a well-formed table for the evidence of the run is reviewed without
\* an exception and found valid, with no violation.
C13_WellFormedAccepted ==
    (pc # "Validating" /\ well_formed)
        => /\ pc = "Reviewed"
           /\ state.is_valid
           /\ DOMAIN state.validation_errors = {}

\* C14: a table that is valid for the evidence but for its omitted header
\* line gets the header-format violation and no other.
C14_HeaderOmitted ==
    (pc # "Validating" /\ table.header = "omitted" /\ table_shape
        /\ ids_complete /\ ranks_contiguous /\ severities_ordered)
        => /\ pc = "Reviewed"
           /\ DOMAIN state.validation_errors = {"Invalid header format"}

\* the evidence ids that are the id of two rows or more
duplicated_ids ==
    {id \in evidence_ids : Cardinality({k \in DOMAIN table.rows : table.rows[k].id = id}) >= 2}

C16_ScenarioD ==
    (pc # "Validating" /\ exact_table /\ Len(state.smells) = 2
        /\ ids_complete /\ ranks_contiguous
        /\ table.rows[1].severity = LOW /\ table.rows[2].severity = HIGH)
        => /\ pc = "Reviewed"
           /\ DOMAIN state.validation_errors = {"Severity ordering violation"}

\* C17: for two evidence records, a table that is well formed but for its
\* ranks, 1 and 3, gets the rank-contiguity violation and no other.
C17_ScenarioE ==
    (pc # "Validating" /\ exact_table /\ Len(state.smells) = 2
        /\ table.rows[1].rank = str(1) /\ table.rows[2].rank = str(3)
        /\ ids_complete /\ severities_ordered)
        => /\ pc = "Reviewed"
           /\ DOMAIN state.validation_errors = {"Invalid rank ordering"}

first_line(text) ==
    LET raw == splitlines(text)
        stripped == [k \in DOMAIN raw |-> strip(raw[k])]
        lines == SelectSeq(stripped, LAMBDA ln : ln # <<>> /\ ~ is_fence_line(ln))
    IN  IF lines = <<>> THEN <<>> ELSE lines[1]

\* C20 as first stated: the first non-empty, non-fence line of an accepted
\* output is the expected header, character for character.
C20_ExactHeader ==
    accepted => first_line(response) = EXPECTED_HEADER

\* C20: an accepted output was written with the expected header, as it is or
\* with whitespace around its delimiters, and the first row the parser
\* yields from it, re-joined, is the expected header character for
\* character; a header in another letter case or a missing header is never
\* accepted.
C20_HeaderAfterParsing ==
    accepted
        => /\ table.header \in {"exact", "spaced"}
           /\ join(_parse_table(response)[2][1]) = EXPECTED_HEADER

\* an accepted table whose header line has spaces around every delimiter
C20_Witness ==
    /\ accepted /\ table.header = "spaced" /\ Len(table.rows) = 2
    /\ first_line(response) # EXPECTED_HEADER

----------------------------------------------------------------------------
(* The table parser applied to a text, then to its own output *)

\* the pieces the texts are made of: a letter, the delimiter, a full stop,
\* a line boundary, a double quote, a fence and the letters that follow it
Chunks == {<<"a">>, <<"|">>, <<".">>, <<"\n">>, <<DoubleQuote>>, Fence, <<"c", "s", "v">>}

RECURSIVE concat(_)
concat(pieces) == IF pieces = <<>> THEN <<>> ELSE pieces[1] \o concat(Tail(pieces))

Texts == {concat(q) : q \in SeqsUpTo(Chunks, MaxChunks)}

\* what normalize_llm_output returns for norm_in and _parse_table for text
parser_result(norm_in, text) ==
    [text |-> text,
     normalized |-> normalize_llm_output(norm_in),
     lines |-> _parse_table(text)[1],
     rows |-> _parse_table(text)[2]]

InitParser ==
    /\ response \in Texts
    /\ pc = "Raw"
    /\ parsed = <<>>
    /\ _SUMMARY_CACHE = <<>>
    /\ summaries = <<>>
    /\ state = <<>>
    /\ table = <<>>
    /\ llm_raised = FALSE
    /\ request = <<>>
    /\ generations = 0
    /\ files = <<>>

\* normalize_llm_output and _parse_table on the text
ParseTable ==
    /\ pc = "Raw"
    /\ parsed' = <<parser_result(response, response)>>
    /\ pc' = "Parsed"
    /\ UNCHANGED <<state, table, response, llm_raised, request, generations, files,
                   _SUMMARY_CACHE, summaries>>

\* normalize_llm_output on the normalized text, and _parse_table on the
\* surviving lines, re-joined
Reparse ==
    /\ pc = "Parsed"
    /\ parsed' = Append(parsed, parser_result(parsed[1].normalized, join_lines(parsed[1].lines)))
    /\ pc' = "Reparsed"
    /\ UNCHANGED <<state, table, response, llm_raised, request, generations, files,
                   _SUMMARY_CACHE, summaries>>

NextParser == ParseTable \/ Reparse

SpecParser == InitParser /\ [][NextParser]_vars

\* C19: normalizing a normalized text changes nothing, and parsing the
\* re-joined lines of a parse yields the same header and rows.
C19_IdempotentNormalization ==
    pc = "Reparsed"
        => /\ parsed[2].normalized = parsed[1].normalized
           /\ parsed[2].rows = parsed[1].rows

----------------------------------------------------------------------------
(* Diagnostics of a rule that several rows break *)

\* C21: when several rows of a parsed table have the wrong column count,
\* the one "Invalid column count" entry names every one of these rows.
C21_EveryOffendingRowNamed ==
    (/\ pc = "Reviewed" /\ parsed_as_written
     /\ "Invalid column count" \in DOMAIN state.validation_errors)
        => {state.validation_errors["Invalid column count"].row}
             = {k \in DOMAIN table.rows : table.rows[k].fields # 7}

----------------------------------------------------------------------------
(* Validation after a repair *)

\* C22: the violations and the validity a validation stores are those of a
\* review of the current output_text and the evidence alone, whatever the
\* State holds of earlier validations and repairs.
C22_ResultsNotMerged ==
    [][(pc = "Validating" /\ pc' # "ValidatorRaised")
         => LET text == IF "output_text" \in DOMAIN state
                        THEN [output_text |-> state.output_text] ELSE <<>>
                fresh == review_output_node([smells |-> state.smells] @@ text)
            IN  /\ ~ fresh.raised
                /\ state'.validation_errors = fresh.state.validation_errors
                /\ state'.is_valid = fresh.state.is_valid]_vars

\* a repaired text is accepted although the text before it had violations
C22_Witness ==
    /\ pc = "Accepted" /\ state.repair_attempts >= 1
    /\ request # <<>> /\ DOMAIN request.errors # {}
    /\ DOMAIN state.validation_errors = {}

----------------------------------------------------------------------------
(* The evidence during a run *)

\* C23: a validation step and a repair step leave the evidence records as
\* they are, so the expected ids are the same in every validation and in
\* every repair request of a run.
C23_EvidenceFixed ==
    [][(pc \in {"Validating", "NeedsRepair"})
         => /\ state'.smells = state.smells
            /\ expected_ids_of(state') = expected_ids_of(state)
            /\ (request' # <<>> => request'.expected_ids = expected_ids_of(state))]_vars

\* a third validation, after two repair requests for three evidence records
C23_Witness ==
    /\ pc = "Validating" /\ state.repair_attempts = 2 /\ generations = 3
    /\ Len(state.smells) = 3 /\ request # <<>>
    /\ request.expected_ids = expected_ids_of(state)

----------------------------------------------------------------------------
(* repair_output_node on its own *)

\* C27: called on a State whose repair_attempts has reached
\* max_repair_attempts, repair_output_node sends nothing to the generator
\* and hands back the State as it was given.
C27_ExhaustedBudgetNoOp ==
    (state.repair_attempts >= state.max_repair_attempts)
        => \A llm_result \in LlmResults :
              LET result == repair_output_node(state, llm_result)
              IN  /\ ~ result.invoked /\ ~ result.raised
                  /\ result.request = <<>>
                  /\ result.state = state

\* a State with a used-up budget of two repairs and violations left
C27_Witness ==
    /\ pc = "ExhaustedWithErrors"
    /\ state.repair_attempts = 2 /\ state.max_repair_attempts = 2
    /\ ~ state.is_valid
    /\ ~ repair_output_node(state, llm_failure).invoked

\* C28: a repair step in which the generator answers changes output_text and
\* repair_attempts only; validation_errors, is_valid and every other key
\* stay as they were, and the node calls the generator whatever is_valid is.
C28_RepairFrame ==
    /\ [][(pc = "NeedsRepair" /\ generations' = generations + 1)
            => /\ DOMAIN state' = DOMAIN state \cup {"output_text"}
               /\ \A key \in DOMAIN state \ {"output_text", "repair_attempts"} :
                     state'[key] = state[key]]_vars
    /\ [](("is_valid" \in DOMAIN state /\ state.repair_attempts < state.max_repair_attempts)
            => \A llm_result \in LlmResults, valid \in BOOLEAN :
                  LET result == repair_output_node(set_item(state, "is_valid", valid), llm_result)
                  IN  /\ result.invoked
                      /\ result.request = repair_output_node(state, llm_result).request
                      /\ result.state.is_valid = valid)

\* a repaired text waits for its validation with the result of the last one
C28_Witness ==
    /\ pc = "Validating" /\ state.repair_attempts = 1 /\ generations = 2
    /\ DOMAIN state.validation_errors # {} /\ ~ state.is_valid
    /\ state.validation_errors = request.errors
    /\ get(state, "output_text", <<>>) = strip(response)
    /\ request.prior # get(state, "output_text", <<>>)

----------------------------------------------------------------------------
(* The severity rule and MEDIUM *)

\* C30: a well-formed table that lists a MEDIUM row before a HIGH row is
\* found valid, and a parsed table of seven-field rows gets the
\* severity-ordering violation exactly when it lists a MEDIUM or HIGH row
\* after a LOW row.
C30_OnlyLowConstrained ==
    /\ (pc # "Validating" /\ well_formed
          /\ \E i, j \in DOMAIN table.rows :
                /\ i < j
                /\ table.rows[i].severity = MEDIUM /\ table.rows[j].severity = HIGH
                /\ \A k \in 1..j : table.rows[k].severity # LOW)
          => /\ pc = "Reviewed" /\ state.is_valid
             /\ "Severity ordering violation" \notin DOMAIN state.validation_errors
    /\ (pc = "Reviewed" /\ parsed_as_written
          /\ \A k \in DOMAIN table.rows : table.rows[k].fields = 7)
          => ("Severity ordering violation" \in DOMAIN state.validation_errors
                <=> \E i, j \in DOMAIN table.rows :
                       /\ i < j
                       /\ upper(table.rows[i].severity) = LOW
                       /\ upper(table.rows[j].severity) \in {MEDIUM, HIGH})

----------------------------------------------------------------------------
(* llm/analyze_code_segment.py: the summaries of the code segments *)

MaxBatch == 2       \* smells handed to one call of analyze_code_segments_via_ai
MaxRuns == 2        \* calls of analyze_code_segments_via_ai in one process

LongMethod == <<"L", "o", "n", "g", " ", "M", "e", "t", "h", "o", "d">>
CodeSmell == <<"C", "o", "d", "e">>

\* the code segments add_further_context finds at the lines of the smells
SnippetPool == << <<"c">>, <<"d">>, <<" ">> >>

\* a number that stands for the text, the same for the same text and
\* another for another text of the pool
hash(snippet) ==
    IF \E n \in DOMAIN SnippetPool : SnippetPool[n] = snippet
    THEN CHOOSE n \in DOMAIN SnippetPool : SnippetPool[n] = snippet
    ELSE 0

_cache_key(smell) ==
    <<get(smell, "type_of_smell", <<>>),
      get(smell, "file_path", <<>>),
      str(get(smell, "line_number", 0)),
      str(hash(get(smell, "code_segment", <<>>)))>>

\* what the f-string of lines 47-56 takes from the smell
user_prompt(smell) ==
    [name |-> get(smell, "name", <<>>),
     type_of_smell |-> get(smell, "type_of_smell", <<>>),
     description |-> get(smell, "description", <<>>),
     code_segment |-> strip(get(smell, "code_segment", <<>>))]

\* the smell with summary, or with None when summary is the empty text
with_summary(smell, summary) ==
    IF summary # <<>> THEN set_item(smell, "ai_code_segment_summary", summary)
    ELSE set_none(smell, "ai_code_segment_summary")

\* the summary of a smell as a list: empty for None, else the one text
summary_of(smell) ==
    IF "ai_code_segment_summary" \in DOMAIN smell
    THEN <<smell.ai_code_segment_summary>>
    ELSE <<>>

\* one pass of the loop of lines 36-65
summarise_smell(smell, llm_result, cache) ==
    LET key == _cache_key(smell)
        summary == IF llm_result.raised THEN <<>> ELSE strip(llm_result.content)
    IN  IF strip(get(smell, "code_segment", <<>>)) = <<>>
        THEN [kind |-> "none", raised |-> FALSE, cache |-> cache,
              smell |-> set_none(smell, "ai_code_segment_summary")]
        ELSE IF key \in DOMAIN cache
        THEN [kind |-> "hit", raised |-> FALSE, cache |-> cache, key |-> key,
              request |-> user_prompt(smell),
              smell |-> set_item(smell, "ai_code_segment_summary", cache[key])]
        ELSE IF llm_result.raised
        THEN [kind |-> "raised", raised |-> TRUE, cache |-> cache, key |-> key,
              request |-> user_prompt(smell), smell |-> smell]
        ELSE [kind |-> "miss", raised |-> FALSE, key |-> key,
              request |-> user_prompt(smell),
              smell |-> with_summary(smell, summary),
              cache |-> set_item(cache, key, summary)]

\* the loop of lines 36-65 from smell k on; llm_results[k] is what the
\* generator does when it is asked about smell k; the loop ends where the
\* generator raises
RECURSIVE summarise_from(_, _, _)
summarise_from(k, llm_results, acc) ==
    IF k > Len(acc.smells) \/ acc.raised THEN acc
    ELSE LET one == summarise_smell(acc.smells[k], llm_results[k], acc.cache)
         IN  summarise_from(k + 1, llm_results,
                 [smells |-> [acc.smells EXCEPT ![k] = one.smell],
                  cache |-> one.cache,
                  entries |-> Append(acc.entries, [c \in DOMAIN one \ {"cache"} |-> one[c]]),
                  raised |-> one.raised])

\* returns the smells as the call leaves them, the cache as it leaves it,
\* one entry per smell the loop came to, and whether the call raised
analyze_code_segments_via_ai(smells, llm_results, enabled, cache) ==
    IF ~ enabled
    THEN [smells |-> [k \in DOMAIN smells |-> set_none(smells[k], "ai_code_segment_summary")],
          cache |-> cache, entries |-> <<>>, raised |-> FALSE]
    ELSE summarise_from(1, llm_results,
             [smells |-> smells, cache |-> cache, entries |-> <<>>, raised |-> FALSE])

\* the smells a run hands over: two smells of one category reported at the
\* same line, smells at other lines, smells without a code segment
SummarySmells ==
    {[index |-> 1, name |-> n, type_of_smell |-> CodeSmell, file_path |-> FilePy,
      line_number |-> 1, description |-> n, code_segment |-> SnippetPool[1]] :
        n \in {LongMethod, FeatureEnvy}}
    \cup {[index |-> 1, name |-> LongMethod, type_of_smell |-> CodeSmell, file_path |-> FilePy,
           line_number |-> 2, description |-> LongMethod, code_segment |-> c] :
             c \in {SnippetPool[2], SnippetPool[3], <<>>}}

SummarySmellLists ==
    {[k \in DOMAIN q |-> [q[k] EXCEPT !.index = k]] : q \in SeqsUpTo(SummarySmells, MaxBatch)}

\* what the generator does with a request for a summary
SummaryResults ==
    {llm_reply(<<>>), llm_reply(<<"A">>), llm_reply(<<" ", "B", "\n">>), llm_failure}

InitSummaries ==
    /\ state = [smells |-> <<>>]
    /\ pc = "Idle"
    /\ table = <<>>
    /\ response = <<>>
    /\ llm_raised = FALSE
    /\ request = <<>>
    /\ generations = 0
    /\ files = <<>>
    /\ parsed = <<>>
    /\ _SUMMARY_CACHE = <<>>
    /\ summaries = <<>>

\* one run calls analyze_code_segments_via_ai on its smells, in the process
\* in which the runs before it were made
AnalyzeCodeSegmentsViaAi ==
    /\ Len(summaries) < MaxRuns
    /\ \E smells \in SummarySmellLists, enabled \in BOOLEAN,
          llm_results \in [1..MaxBatch -> SummaryResults] :
          LET result == analyze_code_segments_via_ai(smells, llm_results, enabled, _SUMMARY_CACHE)
          IN  /\ state' = [smells |-> result.smells]
              /\ _SUMMARY_CACHE' = result.cache
              /\ summaries' = Append(summaries, result.entries)
              /\ llm_raised' = result.raised
              /\ pc' = IF result.raised THEN "TransportFailure" ELSE "Summarised"
    /\ UNCHANGED <<table, response, request, generations, files, parsed>>

NextSummaries == AnalyzeCodeSegmentsViaAi

SpecSummaries == InitSummaries /\ [][NextSummaries]_vars

\* C29: a smell served from the cache gets the summary that the miss which
\* filled the entry assigned, None for an empty summary included, and the
\* request of that miss is the request of this smell.
C29_CacheConsistency ==
    \A r \in DOMAIN summaries : \A k \in DOMAIN summaries[r] :
        LET e == summaries[r][k]
            entries == {<<q, j>> \in (DOMAIN summaries) \X (1..MaxBatch) : j \in DOMAIN summaries[q]}
            fills == {f \in entries : /\ summaries[f[1]][f[2]].kind = "miss"
                                      /\ summaries[f[1]][f[2]].key = e.key}
        IN  e.kind = "hit"
              => \A f \in fills :
                    LET miss == summaries[f[1]][f[2]]
                    IN  /\ summary_of(e.smell) = summary_of(miss.smell)
                        /\ e.request = miss.request

\* C24: no call is served from a cache entry that a call of another run
\* filled: every hit of a run follows a miss of the same run for its key.
C24_RunIsolation ==
    \A r \in DOMAIN summaries : \A k \in DOMAIN summaries[r] :
        LET e == summaries[r][k]
        IN  e.kind = "hit"
              => \E j \in 1..(k - 1) :
                    summaries[r][j].kind = "miss" /\ summaries[r][j].key = e.key

----------------------------------------------------------------------------
(* evaluation/evaluation.py: the cleaning of a stored output *)

lower_char(c) ==
    IF \E k \in DOMAIN UpperCase : UpperCase[k] = c
    THEN LowerCase[CHOOSE k \in DOMAIN UpperCase : UpperCase[k] = c]
    ELSE c

\* str.lower()
lower(s) == [i \in DOMAIN s |-> lower_char(s[i])]

\* the positions at which t occurs in s
occurrences(s, t) == {i \in 1..(Len(s) - Len(t) + 1) : SubSeq(s, i, i + Len(t) - 1) = t}

\* str.translate(_NORMALIZE_CHARS); the curly double quotes (U+201C,
\* U+201D) and the dashes (U+2013, U+2014), which a TLA+ string cannot
\* hold, are named atoms
translate(s) ==
    [i \in DOMAIN s |->
        IF s[i] \in {"LDQUO", "RDQUO"} THEN DoubleQuote
        ELSE IF s[i] \in {"ENDASH", "EMDASH"} THEN "-"
        ELSE s[i]]

\* str.replace('""', '"')
RECURSIVE replace_doubled_quotes(_)
replace_doubled_quotes(s) ==
    LET at == occurrences(s, <<DoubleQuote, DoubleQuote>>)
        f == CHOOSE i \in at : \A j \in at : i <= j
    IN  IF at = {} THEN s
        ELSE SubSeq(s, 1, f) \o replace_doubled_quotes(SubSeq(s, f + 2, Len(s)))

\* _CODE_FENCE_START.sub("", text): the text up to the first fence, the
\* fence, the letters after it and the whitespace after these are removed
sub_code_fence_start(text) ==
    LET at == occurrences(text, Fence)
        f == CHOOSE i \in at : \A j \in at : i <= j
        after_tag == first_not_in(text, f + 3, Range(LowerCase) \cup Range(UpperCase))
        after_space == first_not_in(text, after_tag, Whitespace)
    IN  IF at = {} THEN text
        ELSE SubSeq(text, after_space, Len(text))

\* _CODE_FENCE_END.sub("", text): the first fence that has no line boundary
\* after it, but for one that ends the text, is removed with the whitespace
\* before it and with the rest of its line
sub_code_fence_end(text) ==
    LET on_last_line(i) == \A j \in (i + 3)..(Len(text) - 1) : text[j] # "\n"
        at == {i \in occurrences(text, Fence) : on_last_line(i)}
        f == CHOOSE i \in at : \A j \in at : i <= j
        kept == last_not_in(text, f - 1, Whitespace)
        rest == IF text[Len(text)] = "\n" /\ Len(text) >= f + 3 THEN <<"\n">> ELSE <<>>
    IN  IF at = {} THEN text
        ELSE SubSeq(text, 1, kept) \o rest

_strip_code_fences(text) == strip(sub_code_fence_end(sub_code_fence_start(text)))

_strip_wrapping_quotes(text) ==
    IF startswith(text, <<DoubleQuote>>) /\ endswith(text, <<DoubleQuote>>)
    THEN SubSeq(text, 2, Len(text) - 1)
    ELSE text

\* re.match(r"^-+\|(-+\|?)+$", line)
is_markdown_separator(line) ==
    /\ Len(line) >= 3
    /\ \A i \in DOMAIN line : line[i] \in {"-", "|"}
    /\ line[1] = "-"
    /\ \A i \in 1..(Len(line) - 1) : ~ (line[i] = "|" /\ line[i + 1] = "|")
    /\ \E i \in 1..(Len(line) - 1) : line[i] = "|"

RankBar == <<"r", "a", "n", "k", "|">>

\* the loop of _clean_lines over the lines from k on
RECURSIVE clean_from(_, _, _)
clean_from(lines, k, cleaned) ==
    IF k > Len(lines) THEN cleaned
    ELSE LET line == strip(lines[k])
         IN  IF line = <<>> THEN clean_from(lines, k + 1, cleaned)
             ELSE IF is_markdown_separator(line) THEN clean_from(lines, k + 1, cleaned)
             ELSE IF /\ startswith(lower(line), RankBar)
                     /\ cleaned # <<>>
                     /\ occurrences(lower(cleaned[1]), RankBar) # {}
             THEN clean_from(lines, k + 1, cleaned)
             ELSE clean_from(lines, k + 1, Append(cleaned, line))

\* returns the list cleaned, which the code joins with line boundaries
_clean_lines(text) == clean_from(splitlines(text), 1, <<>>)

\* the text format_output_from_llm_to_csv_format hands to the CSV reader
\* (lines 158-161), as the list of its lines
format_output_from_llm_to_csv_format(raw_text) ==
    LET unfenced == _strip_code_fences(raw_text)
        text == strip(replace_doubled_quotes(translate(unfenced)))
    IN  _clean_lines(_strip_wrapping_quotes(text))

----------------------------------------------------------------------------
(* The two table parsers on a table with formatting around it *)

\* the language tags of a fence opening
Tags ==
    {<<>>, <<"c", "s", "v">>, <<"t", "e", "x", "t">>,
     <<"m", "a", "r", "k", "d", "o", "w", "n">>}

\* markdown separator lines: of hyphens and pipes, with alignment colons,
\* with outer pipes
Separators ==
    {<<"-", "-", "-", "|", "-", "-", "-">>,
     <<":", "-", "-", "|", "-", "-", ":">>,
     <<"|", "-", "-", "|", "-", "-", "|">>}

\* the lines of the table with the exact header and nothing around it
bare_lines(rows) == <<EXPECTED_HEADER>> \o [k \in DOMAIN rows |-> render_row(rows[k])]

bare(rows) == join_lines(bare_lines(rows))

fenced(tag, text) == Fence \o tag \o <<"\n">> \o text \o <<"\n">> \o Fence

decorated(deco, tag, sep, rows) ==
    [deco |-> deco, tag |-> tag, sep |-> sep, rows |-> rows]

Decorated ==
    {decorated(d, <<>>, <<>>, rows) :
        d \in {"bare", "quoted", "curly_quoted", "repeated_header"}, rows \in SeqsUpTo(PlainRows, MaxRows)}
    \cup {decorated(d, tag, <<>>, rows) :
            d \in {"fenced", "prose_fenced"}, tag \in Tags, rows \in SeqsUpTo(PlainRows, MaxRows)}
    \cup {decorated("separated", <<>>, sep, rows) :
            sep \in Separators, rows \in SeqsUpTo(PlainRows, MaxRows)}

\* the text of a decorated table
decorate(t) ==
    CASE t.deco = "quoted" -> <<DoubleQuote>> \o bare(t.rows) \o <<DoubleQuote>>
      [] t.deco = "curly_quoted" -> <<"LDQUO">> \o bare(t.rows) \o <<"RDQUO">>
      [] t.deco = "fenced" -> fenced(t.tag, bare(t.rows))
      [] t.deco = "prose_fenced" -> Prose \o <<"\n">> \o fenced(t.tag, bare(t.rows))
      [] t.deco = "repeated_header" -> join_lines(<<EXPECTED_HEADER>> \o bare_lines(t.rows))
      [] t.deco = "separated" ->
            join_lines(<<EXPECTED_HEADER, t.sep>> \o Tail(bare_lines(t.rows)))
      [] OTHER -> bare(t.rows)

InitFormatter ==
    /\ table \in Decorated
    /\ response = decorate(table)
    /\ pc = "Raw"
    /\ parsed = <<>>
    /\ _SUMMARY_CACHE = <<>>
    /\ summaries = <<>>
    /\ state = <<>>
    /\ llm_raised = FALSE
    /\ request = <<>>
    /\ generations = 0
    /\ files = <<>>

\* format_output_from_llm_to_csv_format on the text the validator parsed
FormatOutput ==
    /\ pc = "Parsed"
    /\ parsed' = Append(parsed, [text |-> response,
                                 lines |-> format_output_from_llm_to_csv_format(response)])
    /\ pc' = "Formatted"
    /\ UNCHANGED <<state, table, response, llm_raised, request, generations, files,
                   _SUMMARY_CACHE, summaries>>

NextFormatter == ParseTable \/ FormatOutput

SpecFormatter == InitFormatter /\ [][NextFormatter]_vars

\* C25: a table inside a fence of any language tag, with or without prose
\* before the fence, or inside one pair of double quotes, is parsed to the
\* header and rows of the bare table.
C25_FenceAndQuoteStripping ==
    (pc = "Formatted" /\ table.deco \in {"fenced", "prose_fenced", "quoted"})
        => /\ parsed[1].rows = _parse_table(bare(table.rows))[2]
           /\ parsed[2].lines = format_output_from_llm_to_csv_format(bare(table.rows))

\* C26: a table whose header line is repeated, or followed by a markdown
\* separator line, is parsed to the header and rows of the table with the
\* single header.
C26_DuplicateHeaderDropped ==
    (pc = "Formatted" /\ table.deco \in {"repeated_header", "separated"})
        => /\ parsed[1].rows = _parse_table(bare(table.rows))[2]
           /\ parsed[2].lines = format_output_from_llm_to_csv_format(bare(table.rows))

====
